---- MODULE Spec2Model ----
(***************************************************************************)
(* The retrying MathScanProvider (generateText version) of                 *)
(* src/providers/ThemeProvider.tsx, lines 115-828: the scan history kept   *)
(* in React state and in AsyncStorage under a primary and a backup key,    *)
(* and the operations on it (loadScans, saveScans, deleteScan,             *)
(* clearAllScans, processScan).                                            *)
(*                                                                         *)
(* Every `await` of the source is one step: the awaited I/O completes      *)
(* (with one of its outcomes) and the code after it runs up to the next    *)
(* await.  Calls that are in flight at the same time interleave at these   *)
(* points, as they do on the JavaScript event loop.                        *)
(*                                                                         *)
(* Strings that the code inspects (stored values, model responses) are     *)
(* sequences of tokens; error messages are sequences of characters.        *)
(* The native branch of Platform.OS is the one modelled.                   *)
(***************************************************************************)
EXTENDS Integers, Sequences, FiniteSets, TLC

\* ------------------------------------------------------------------------
\* Program constants
\* ------------------------------------------------------------------------
STORAGE_KEY == "mathscan_history"
STORAGE_BACKUP_KEY == "mathscan_history_backup"
MAX_RETRIES == 3
RETRY_DELAY == 1000
API_TIMEOUT == 45000

\* ------------------------------------------------------------------------
\* Bounds of the model
\* ------------------------------------------------------------------------
\* Number of I/O operations that may fail (or report offline) in one behaviour.
MaxFaults == 3
\* Last value of the millisecond clock read by Date.now().
MaxTime == 1
\* Number of calls (loadScans, processScan, deleteScan, clearAllScans) that
\* may be in flight at the same time.
MaxInFlight == 2

\* ------------------------------------------------------------------------
\* Data: problems, scans, JSON text
\* ------------------------------------------------------------------------
ProblemA ==
  [problemText |-> "2+2", isCorrect |-> TRUE, confidence |-> 95,
   qualityIssues |-> <<>>]

ProblemB ==
  [problemText |-> "2x=8", isCorrect |-> FALSE, confidence |-> 60,
   qualityIssues |-> <<"Handwriting unclear">>]

\* The problem processScan substitutes when the response cannot be parsed.
PlaceholderProblem ==
  [problemText |-> "Unable to parse problems from image", isCorrect |-> FALSE,
   confidence |-> 0, qualityIssues |-> <<"AI response parsing failed">>]

\* The JSON text of a problem object, as one token.
ProblemTokens == {"pA", "pB", "pH"}

TokenProblem(t) ==
  IF t = "pA" THEN ProblemA ELSE IF t = "pB" THEN ProblemB ELSE PlaceholderProblem

ProblemToken(p) == CHOOSE t \in ProblemTokens : TokenProblem(t) = p

RECURSIVE JoinTokens(_, _)
\* The texts of `parts` separated by commas.
JoinTokens(parts, i) ==
  IF i > Len(parts) THEN <<>>
  ELSE (IF i > 1 THEN <<",">> ELSE <<>>) \o parts[i] \o JoinTokens(parts, i + 1)

StringifyProblems(ps) ==
  <<"[">> \o JoinTokens([i \in 1..Len(ps) |-> <<ProblemToken(ps[i])>>], 1) \o <<"]">>

StringifyScan(s) ==
  <<"{", "id", s.id, "problems">> \o StringifyProblems(s.problems) \o <<"}">>

\* JSON.stringify of a list of scans.
JSONstringify(list) ==
  <<"[">> \o JoinTokens([i \in 1..Len(list) |-> StringifyScan(list[i])], 1) \o <<"]">>

ParseFail == [ok |-> FALSE, val |-> <<>>, next |-> 0]

RECURSIVE ParseProblemElems(_, _, _)
ParseProblemElems(t, i, acc) ==
  IF i + 1 > Len(t) \/ t[i] \notin ProblemTokens THEN ParseFail
  ELSE IF t[i + 1] = "]"
  THEN [ok |-> TRUE, val |-> Append(acc, TokenProblem(t[i])), next |-> i + 2]
  ELSE IF t[i + 1] = ","
  THEN ParseProblemElems(t, i + 2, Append(acc, TokenProblem(t[i])))
  ELSE ParseFail

\* An array of problem objects starting at t[i].
ParseProblemArray(t, i) ==
  IF i + 1 > Len(t) \/ t[i] # "[" THEN ParseFail
  ELSE IF t[i + 1] = "]" THEN [ok |-> TRUE, val |-> <<>>, next |-> i + 2]
  ELSE ParseProblemElems(t, i + 1, <<>>)

\* The end of a scan object whose id is `id` and whose problems parsed as ps.
ParseScanEnd(t, id, ps) ==
  IF ~ps.ok \/ ps.next > Len(t) \/ t[ps.next] # "}" THEN ParseFail
  ELSE [ok |-> TRUE, val |-> [id |-> id, problems |-> ps.val], next |-> ps.next + 1]

\* A scan object starting at t[i].
ParseScanObject(t, i) ==
  IF i + 4 > Len(t) \/ t[i] # "{" \/ t[i + 1] # "id" \/ t[i + 3] # "problems"
  THEN ParseFail
  ELSE ParseScanEnd(t, t[i + 2], ParseProblemArray(t, i + 4))

RECURSIVE ParseScanElems(_, _, _)
\* What follows the scan object s in an array of scans.
ParseScanNext(t, s, acc) ==
  IF ~s.ok \/ s.next > Len(t) THEN ParseFail
  ELSE IF t[s.next] = "]"
  THEN [ok |-> TRUE, val |-> Append(acc, s.val), next |-> s.next + 1]
  ELSE IF t[s.next] = ","
  THEN ParseScanElems(t, s.next + 1, Append(acc, s.val))
  ELSE ParseFail

ParseScanElems(t, i, acc) == ParseScanNext(t, ParseScanObject(t, i), acc)

\* The value of a text that starts with "[", whose elements parsed as r.
ParseArrayEnd(t, r) ==
  IF r.ok /\ r.next = Len(t) + 1
  THEN [ok |-> TRUE, isArray |-> TRUE, val |-> r.val]
  ELSE [ok |-> FALSE, isArray |-> FALSE, val |-> <<>>]

\* JSON.parse: ok = FALSE when it throws a SyntaxError; isArray and val
\* describe the value otherwise (val is the array's elements).
JSONparse(t) ==
  IF t = <<"null">> \/ t = <<"{", "}">> \/ t = <<"7">>
  THEN [ok |-> TRUE, isArray |-> FALSE, val |-> <<>>]
  ELSE IF Len(t) < 2 \/ t[1] # "["
  THEN [ok |-> FALSE, isArray |-> FALSE, val |-> <<>>]
  ELSE IF t[2] = "]" THEN ParseArrayEnd(t, [ok |-> TRUE, val |-> <<>>, next |-> 3])
  ELSE IF t[2] = "{" THEN ParseArrayEnd(t, ParseScanElems(t, 2, <<>>))
  ELSE ParseArrayEnd(t, ParseProblemElems(t, 2, <<>>))

\* ------------------------------------------------------------------------
\* AsyncStorage
\* ------------------------------------------------------------------------
\* What getItem returns: null (has = FALSE) or a string.
NoItem == [has |-> FALSE, str |-> <<>>]
Item(tokens) == [has |-> TRUE, str |-> tokens]

\* `!stored` of JavaScript: null or the empty string.
Falsy(item) == ~item.has \/ item.str = <<>>

OldScan == [id |-> "0", problems |-> <<ProblemA>>]

\* What the two keys may hold when the provider is constructed: AsyncStorage
\* outlives the provider, and earlier versions of the app wrote the primary key.
InitialStores ==
  { [primary |-> NoItem, backup |-> NoItem],
    [primary |-> Item(JSONstringify(<<OldScan>>)), backup |-> Item(JSONstringify(<<OldScan>>))],
    [primary |-> Item(<<>>), backup |-> Item(JSONstringify(<<OldScan>>))],
    [primary |-> Item(<<"null">>), backup |-> Item(JSONstringify(<<OldScan>>))],
    [primary |-> Item(<<"{", "}">>), backup |-> Item(JSONstringify(<<OldScan>>))],
    [primary |-> Item(<<"[", "{", "id">>), backup |-> Item(JSONstringify(<<OldScan>>))] }

\* ------------------------------------------------------------------------
\* Errors and their classification
\* ------------------------------------------------------------------------
\* "No image URI provided"
MsgNoUri ==
  <<"N", "o", " ", "i", "m", "a", "g", "e", " ", "U", "R", "I", " ", "p",
    "r", "o", "v", "i", "d", "e", "d">>

\* "No internet connection. Please check your network and try again."
MsgOffline ==
  <<"N", "o", " ", "i", "n", "t", "e", "r", "n", "e", "t", " ", "c", "o",
    "n", "n", "e", "c", "t", "i", "o", "n", ".", " ", "P", "l", "e", "a",
    "s", "e", " ", "c", "h", "e", "c", "k", " ", "y", "o", "u", "r", " ",
    "n", "e", "t", "w", "o", "r", "k", " ", "a", "n", "d", " ", "t", "r",
    "y", " ", "a", "g", "a", "i", "n", ".">>

\* "Invalid base64 image data"
MsgInvalidBase64 ==
  <<"I", "n", "v", "a", "l", "i", "d", " ", "b", "a", "s", "e", "6", "4",
    " ", "i", "m", "a", "g", "e", " ", "d", "a", "t", "a">>

\* "Failed to convert image after 3 attempts: "
MsgConvertPrefix ==
  <<"F", "a", "i", "l", "e", "d", " ", "t", "o", " ", "c", "o", "n", "v",
    "e", "r", "t", " ", "i", "m", "a", "g", "e", " ", "a", "f", "t", "e",
    "r", " ", "3", " ", "a", "t", "t", "e", "m", "p", "t", "s", ":", " ">>

\* "Invalid data URI format"
MsgInvalidDataUri ==
  <<"I", "n", "v", "a", "l", "i", "d", " ", "d", "a", "t", "a", " ", "U",
    "R", "I", " ", "f", "o", "r", "m", "a", "t">>

\* "Invalid image URI format"
MsgInvalidUri ==
  <<"I", "n", "v", "a", "l", "i", "d", " ", "i", "m", "a", "g", "e", " ",
    "U", "R", "I", " ", "f", "o", "r", "m", "a", "t">>

\* "Failed to fetch image: 404"
MsgFetchStatus ==
  <<"F", "a", "i", "l", "e", "d", " ", "t", "o", " ", "f", "e", "t", "c",
    "h", " ", "i", "m", "a", "g", "e", ":", " ", "4", "0", "4">>

\* "Image file is empty"
MsgEmptyFile ==
  <<"I", "m", "a", "g", "e", " ", "f", "i", "l", "e", " ", "i", "s", " ",
    "e", "m", "p", "t", "y">>

\* "Image conversion timeout after 30s"
MsgConvertTimeout ==
  <<"I", "m", "a", "g", "e", " ", "c", "o", "n", "v", "e", "r", "s", "i",
    "o", "n", " ", "t", "i", "m", "e", "o", "u", "t", " ", "a", "f", "t",
    "e", "r", " ", "3", "0", "s">>

\* "Base64 result is too short or empty"
MsgTooShort ==
  <<"B", "a", "s", "e", "6", "4", " ", "r", "e", "s", "u", "l", "t", " ",
    "i", "s", " ", "t", "o", "o", " ", "s", "h", "o", "r", "t", " ", "o",
    "r", " ", "e", "m", "p", "t", "y">>

\* "Network request failed"
MsgRequestFailed ==
  <<"N", "e", "t", "w", "o", "r", "k", " ", "r", "e", "q", "u", "e", "s",
    "t", " ", "f", "a", "i", "l", "e", "d">>

\* "Rate limit exceeded"
MsgRateLimit ==
  <<"R", "a", "t", "e", " ", "l", "i", "m", "i", "t", " ", "e", "x", "c",
    "e", "e", "d", "e", "d">>

\* "Aborted"
MsgAborted ==
  <<"A", "b", "o", "r", "t", "e", "d">>

\* An error: its name, the text of its message (by key) and whether
\* convertImageToBase64 wrapped it in its 'after 3 attempts' error.
Err(name, key, wrapped) == [name |-> name, key |-> key, wrapped |-> wrapped]

NoError == Err("", "", FALSE)

MessageText(key) ==
  CASE key = "noUri" -> MsgNoUri
    [] key = "offline" -> MsgOffline
    [] key = "invalidBase64" -> MsgInvalidBase64
    [] key = "invalidDataUri" -> MsgInvalidDataUri
    [] key = "invalidUri" -> MsgInvalidUri
    [] key = "fetchStatus" -> MsgFetchStatus
    [] key = "emptyFile" -> MsgEmptyFile
    [] key = "convertTimeout" -> MsgConvertTimeout
    [] key = "tooShort" -> MsgTooShort
    [] key = "requestFailed" -> MsgRequestFailed
    [] key = "rateLimit" -> MsgRateLimit
    [] key = "aborted" -> MsgAborted
    [] OTHER -> <<>>

\* error.message
Message(e) ==
  IF e.wrapped THEN MsgConvertPrefix \o MessageText(e.key) ELSE MessageText(e.key)

\* String.prototype.includes
Includes(text, sub) ==
  \E i \in 1..(Len(text) - Len(sub) + 1) : SubSeq(text, i, i + Len(sub) - 1) = sub

UpperCase ==
  <<"A", "B", "C", "D", "E", "F", "G", "H", "I", "J", "K", "L", "M",
    "N", "O", "P", "Q", "R", "S", "T", "U", "V", "W", "X", "Y", "Z">>

LowerCase ==
  <<"a", "b", "c", "d", "e", "f", "g", "h", "i", "j", "k", "l", "m",
    "n", "o", "p", "q", "r", "s", "t", "u", "v", "w", "x", "y", "z">>

\* String.prototype.toLowerCase
ToLowerCase(text) ==
  [i \in 1..Len(text) |->
     IF \E k \in 1..Len(UpperCase) : UpperCase[k] = text[i]
     THEN LowerCase[CHOOSE k \in 1..Len(UpperCase) : UpperCase[k] = text[i]]
     ELSE text[i]]

ErrorKeys ==
  {"noUri", "offline", "invalidBase64", "invalidDataUri", "invalidUri", "fetchStatus",
   "emptyFile", "convertTimeout", "tooShort", "requestFailed", "rateLimit", "aborted"}

\* The messages an error caught by processScan can carry.
Messages == {Message(Err("Error", k, w)) : k \in ErrorKeys, w \in BOOLEAN}

\* Mutant of IsNetworkMessage: the test for 'fetch' is missing.
IsNetworkMessage_NoFetch(text) ==
  \/ Includes(text, <<"n", "e", "t", "w", "o", "r", "k">>)
  \/ Includes(text, <<"N", "e", "t", "w", "o", "r", "k">>)
  \/ Includes(text, <<"t", "i", "m", "e", "o", "u", "t">>)
  \/ Includes(text, <<"U", "n", "a", "b", "l", "e", " ", "t", "o", " ", "r", "e", "a", "c", "h">>)
  \/ Includes(ToLowerCase(text), <<"c", "o", "n", "n", "e", "c", "t", "i", "o", "n">>)

\* The tests on error.message that processScan's catch block makes.
IsNetworkMessage(text) ==
  \/ Includes(text, <<"n", "e", "t", "w", "o", "r", "k">>)
  \/ Includes(text, <<"N", "e", "t", "w", "o", "r", "k">>)
  \/ Includes(text, <<"t", "i", "m", "e", "o", "u", "t">>)
  \/ Includes(text, <<"f", "e", "t", "c", "h">>)
  \/ Includes(text, <<"U", "n", "a", "b", "l", "e", " ", "t", "o", " ", "r", "e", "a", "c", "h">>)
  \/ Includes(ToLowerCase(text), <<"c", "o", "n", "n", "e", "c", "t", "i", "o", "n">>)

NetworkMessages == {text \in Messages : IsNetworkMessage(text)}

\* The test processScan's catch block makes before it retries.
IsNetworkError(e) ==
  \/ Message(e) \in NetworkMessages
  \/ e.name = "AbortError"
  \/ e.name = "TypeError"

\* ------------------------------------------------------------------------
\* Inputs of processScan: image URIs, conversion outcomes, model responses
\* ------------------------------------------------------------------------
\* An image URI: its scheme prefix and the length of what follows the first
\* comma (the base64 payload of a data URI).  An empty scheme with no
\* payload is the empty or whitespace-only string.
Uri(scheme, spaces, payload) == [scheme |-> scheme, spaces |-> spaces, payload |-> payload]

Uris ==
  { Uri("", 0, 0), Uri("", 2, 0), Uri("file://", 0, 0), Uri("ftp://", 0, 0),
    Uri("data:image", 0, 100), Uri("data:image", 0, 101) }

\* !imageUri || imageUri.trim() === ''
IsBlank(uri) == uri.scheme = ""

validateImageUri(uri) ==
  /\ ~IsBlank(uri)
  /\ uri.scheme \in {"file://", "http://", "https://", "content://", "data:", "blob:"}

\* What one fetch-and-encode of a file can end in: the length of the base64
\* text, or the error thrown.
ConvertFailures ==
  { [len |-> 0, error |-> Err("TypeError", "requestFailed", FALSE)],
    [len |-> 0, error |-> Err("Error", "fetchStatus", FALSE)],
    [len |-> 0, error |-> Err("Error", "emptyFile", FALSE)],
    [len |-> 0, error |-> Err("Error", "convertTimeout", FALSE)],
    [len |-> 99, error |-> NoError] }

ConvertSuccess == [len |-> 100, error |-> NoError]

\* Errors generateText may reject with.
AiErrors ==
  { Err("TypeError", "requestFailed", FALSE), Err("Error", "rateLimit", FALSE),
    Err("AbortError", "aborted", FALSE) }

\* Responses of the model, as token sequences ("x" is prose).
Completions ==
  { <<"x", "[", "pA", ",", "pB", "]", "x">>,
    <<"x">>,
    <<"[", "pA">>,
    <<"[", "pA", "]", "x", "]">>,
    <<"{", "}">>,
    <<"x", "[", "]">> }

\* completion.match(/\[[\s\S]*\]/): from the first "[" to the last "]".
MatchArray(completion) ==
  LET opens == {i \in 1..Len(completion) : completion[i] = "["}
      closes == {i \in 1..Len(completion) : completion[i] = "]"} IN
  IF opens = {} THEN [found |-> FALSE, text |-> <<>>]
  ELSE LET first == CHOOSE i \in opens : \A j \in opens : i <= j
           after == {i \in closes : i > first} IN
       IF after = {} THEN [found |-> FALSE, text |-> <<>>]
       ELSE [found |-> TRUE,
             text |-> SubSeq(completion, first, CHOOSE i \in after : \A j \in after : j <= i)]

\* Mutant of ParseCompletion: an empty array is accepted.
ParseCompletion_AcceptsEmpty(completion) ==
  LET jsonMatch == MatchArray(completion)
      parsed == IF jsonMatch.found THEN JSONparse(jsonMatch.text) ELSE JSONparse(completion) IN
  IF ~parsed.ok \/ ~parsed.isArray
  THEN <<PlaceholderProblem>>
  ELSE parsed.val

\* The problems processScan builds from a response (lines 735-761).
ParseCompletion(completion) ==
  LET jsonMatch == MatchArray(completion)
      parsed == IF jsonMatch.found THEN JSONparse(jsonMatch.text) ELSE JSONparse(completion) IN
  IF ~parsed.ok \/ ~parsed.isArray \/ Len(parsed.val) = 0
  THEN <<PlaceholderProblem>>
  ELSE parsed.val

\* ------------------------------------------------------------------------
\* processScan
\* ------------------------------------------------------------------------
IdleProc ==
  [pc |-> "idle", imageUri |-> Uri("", 0, 0), closure |-> <<>>,
   processingAttempts |-> 0, retries |-> 0, base64Len |-> 0, delay |-> 0,
   waited |-> 0, steps |-> <<>>, scanId |-> "",
   error |-> NoError]

VARIABLES
  scans,        \* the React state `scans`
  initialized,  \* the React state set by _setInitialized
  store,        \* AsyncStorage: the items under the two keys
  now,          \* the clock read by Date.now()
  faults,       \* number of failed I/O operations so far
  load,         \* the loadScans call started by the mount effect
  save,         \* the saveScans call of each caller
  clear,        \* the clearAllScans call
  proc,         \* the processScan call
  hist          \* history of the session, read by the properties only

vars == <<scans, initialized, store, now, faults, load, save, clear, proc, hist>>

Callers == {"processScan", "deleteScan"}

IdleSave == [pc |-> "idle", retries |-> 0, newScans |-> <<>>, delay |-> 0]

\* hist.clean: the calls of this session have been processScan and deleteScan
\* calls made one after the other, and none of their storage writes has failed.
\* hist.reads: no storage read of this session's loadScans has failed.
\* hist.called: processScan or deleteScan has been called in this session.
\* hist.prev: the scans in memory when the app was last closed, with that
\* session's hist.reads and hist.called; valid if that session was clean and no call was in
\* flight when it was closed, and until the first call of this session.
\* hist.pending: the ids in memory when the clearAllScans call in flight was
\* made.  hist.cleared: the ids that were in memory when a clearAllScans call
\* was made that has since emptied the in-memory list (in any session), as far
\* as a storage key or a call in flight still held them when the list was
\* emptied and when the app was last opened (an id that nothing holds cannot
\* come back, for the ids of new scans are fresh), and until the step that puts
\* them into memory again.
\* hist.target: the id the deleteScan call in flight was given ("" if there is
\* none or no scan in memory had that id when it was called).  hist.only: the
\* calls made so far, in all sessions, have been processScan and deleteScan
\* calls.  While that is so, hist.resolved holds the ids that the processScan
\* calls of this session have resolved with, and hist.deleted the ids given to
\* the deleteScan calls of this session that have completed (those that were in
\* memory when the call was made).
NoPrev == [valid |-> FALSE, reads |-> FALSE, called |-> FALSE, scans |-> <<>>]

Init ==
  /\ scans = <<>>
  /\ initialized = FALSE
  /\ store \in InitialStores
  /\ now = 1
  /\ faults = 0
  /\ load = [pc |-> "timer", retries |-> 0, delay |-> 0]
  /\ save = [c \in Callers |-> IdleSave]
  /\ clear = "idle"
  /\ proc = IdleProc
  /\ hist = [clean |-> TRUE, reads |-> TRUE, called |-> FALSE, prev |-> NoPrev,
             pending |-> {}, cleared |-> {},
             only |-> TRUE, resolved |-> {}, target |-> "", deleted |-> {}]

\* The ids of the scans of a list.
Ids(list) == {list[i].id : i \in 1..Len(list)}

\* The ids of the scans of the list an item holds, if it holds one.
StoredIds(item) ==
  IF item.has /\ JSONparse(item.str).ok /\ JSONparse(item.str).isArray
  THEN Ids(JSONparse(item.str).val) ELSE {}

\* The ids that the storage keys st and the calls in flight hold.
HeldIds(st) ==
  StoredIds(st.primary) \cup StoredIds(st.backup) \cup Ids(proc.closure)
  \cup UNION {Ids(save[c].newScans) : c \in Callers}

\* Number of calls in flight.
InFlight ==
  (IF load.pc # "done" THEN 1 ELSE 0) + (IF proc.pc # "idle" THEN 1 ELSE 0)
  + (IF save["deleteScan"].pc # "idle" THEN 1 ELSE 0) + (IF clear # "idle" THEN 1 ELSE 0)

\* An I/O operation may fail while the fault budget lasts.
Outcomes == {"ok"} \cup (IF faults < MaxFaults THEN {"fail"} ELSE {})

Count(o) == IF o = "ok" THEN faults ELSE faults + 1

\* ------------------------------------------------------------------------
\* loadScans (started 300 ms after mount)
\* ------------------------------------------------------------------------
\* Mutant of LoadCatch: after the third failure the provider is not marked
\* initialized.
LoadCatch_NotInitialized ==
  LET r == load.retries + 1 IN
  IF r < MAX_RETRIES
  THEN /\ load' = [pc |-> "read_primary", retries |-> r, delay |-> RETRY_DELAY]
       /\ UNCHANGED <<scans, initialized>>
  ELSE /\ load' = [pc |-> "done", retries |-> r, delay |-> 0]
       /\ scans' = <<>>
       /\ UNCHANGED initialized

\* The catch block of loadScans.
LoadCatch ==
  LET r == load.retries + 1 IN
  IF r < MAX_RETRIES
  THEN /\ load' = [pc |-> "read_primary", retries |-> r, delay |-> RETRY_DELAY]
       /\ UNCHANGED <<scans, initialized>>
  ELSE /\ load' = [pc |-> "done", retries |-> r, delay |-> 0]
       /\ scans' = <<>>
       /\ initialized' = TRUE

\* What loadScans does with the string it has read.
LoadStored(stored) ==
  IF ~Falsy(stored) /\ stored.str # <<"null">> /\ stored.str # <<"undefined">>
  THEN LET parsedScans == JSONparse(stored.str) IN
       IF ~parsedScans.ok THEN LoadCatch
       ELSE /\ scans' = (IF parsedScans.isArray THEN parsedScans.val ELSE <<>>)
            /\ initialized' = TRUE
            /\ load' = [pc |-> "done", retries |-> load.retries, delay |-> 0]
  ELSE /\ scans' = <<>>
       /\ initialized' = TRUE
       /\ load' = [pc |-> "done", retries |-> load.retries, delay |-> 0]

\* The mount effect's timer fires and loadScans starts its first attempt.
LoadBegin ==
  /\ load.pc = "timer"
  /\ load' = [load EXCEPT !.pc = "read_primary"]
  /\ UNCHANGED <<scans, initialized, store, now, faults, save, clear, proc, hist>>

\* await AsyncStorage.getItem(STORAGE_KEY)
LoadReadPrimary ==
  /\ load.pc = "read_primary"
  /\ \E o \in Outcomes :
       /\ faults' = Count(o)
       /\ IF o = "fail" THEN LoadCatch
          ELSE IF Falsy(store.primary)
          THEN /\ load' = [load EXCEPT !.pc = "read_backup"]
               /\ UNCHANGED <<scans, initialized>>
          ELSE LoadStored(store.primary)
       /\ hist' = [hist EXCEPT !.reads = @ /\ o = "ok", !.cleared = @ \ Ids(scans')]
  /\ UNCHANGED <<store, now, save, clear, proc>>

\* Mutant of LoadReadBackup: the fallback reads the primary key again.
LoadReadBackup_ReadsPrimary ==
  /\ load.pc = "read_backup"
  /\ \E o \in Outcomes :
       /\ faults' = Count(o)
       /\ IF o = "fail" THEN LoadCatch ELSE LoadStored(store.primary)
       /\ hist' = [hist EXCEPT !.reads = @ /\ o = "ok", !.cleared = @ \ Ids(scans')]
  /\ UNCHANGED <<store, now, save, clear, proc>>

\* await AsyncStorage.getItem(STORAGE_BACKUP_KEY)
LoadReadBackup ==
  /\ load.pc = "read_backup"
  /\ \E o \in Outcomes :
       /\ faults' = Count(o)
       /\ IF o = "fail" THEN LoadCatch ELSE LoadStored(store.backup)
       /\ hist' = [hist EXCEPT !.reads = @ /\ o = "ok", !.cleared = @ \ Ids(scans')]
  /\ UNCHANGED <<store, now, save, clear, proc>>

\* ------------------------------------------------------------------------
\* saveScans, as called by processScan and by deleteScan
\* ------------------------------------------------------------------------
\* The start of one iteration of saveScans' loop, up to its first await.
SaveAttempt(newScans, retries, delay) ==
  LET dataToSave == JSONstringify(newScans) IN
  IF dataToSave = <<>> \/ dataToSave = <<"null">>
  THEN [pc |-> "returned", retries |-> retries, newScans |-> newScans, delay |-> delay]
  ELSE [pc |-> "write_primary", retries |-> retries, newScans |-> newScans, delay |-> delay]

\* Mutant of SaveCatch: the wait grows with the number of failures.
SaveCatch_GrowingDelay(sv) ==
  LET r == sv.retries + 1 IN
  IF r < MAX_RETRIES
  THEN SaveAttempt(sv.newScans, r, RETRY_DELAY * r)
  ELSE [sv EXCEPT !.pc = "returned", !.retries = r, !.delay = 0]

\* The catch block of saveScans.
SaveCatch(sv) ==
  LET r == sv.retries + 1 IN
  IF r < MAX_RETRIES
  THEN SaveAttempt(sv.newScans, r, RETRY_DELAY)
  ELSE [sv EXCEPT !.pc = "returned", !.retries = r, !.delay = 0]

\* Mutant of SaveWritePrimary: the first write goes to the backup key.
SaveWritePrimary_ToBackupKey(c) ==
  /\ save[c].pc = "write_primary"
  /\ \E o \in Outcomes :
       /\ faults' = Count(o)
       /\ IF o = "fail"
          THEN /\ save' = [save EXCEPT ![c] = SaveCatch(save[c])]
               /\ UNCHANGED store
          ELSE /\ store' = [store EXCEPT !.backup = Item(JSONstringify(save[c].newScans))]
               /\ save' = [save EXCEPT ![c].pc = "write_backup"]
       /\ hist' = [hist EXCEPT !.clean = @ /\ o = "ok"]
  /\ UNCHANGED <<scans, initialized, now, load, clear, proc>>

\* await AsyncStorage.setItem(STORAGE_KEY, dataToSave)
SaveWritePrimary(c) ==
  /\ save[c].pc = "write_primary"
  /\ \E o \in Outcomes :
       /\ faults' = Count(o)
       /\ IF o = "fail"
          THEN /\ save' = [save EXCEPT ![c] = SaveCatch(save[c])]
               /\ UNCHANGED store
          ELSE /\ store' = [store EXCEPT !.primary = Item(JSONstringify(save[c].newScans))]
               /\ save' = [save EXCEPT ![c].pc = "write_backup"]
       /\ hist' = [hist EXCEPT !.clean = @ /\ o = "ok"]
  /\ UNCHANGED <<scans, initialized, now, load, clear, proc>>

\* await AsyncStorage.setItem(STORAGE_BACKUP_KEY, dataToSave); setScans(newScans)
SaveWriteBackup(c) ==
  /\ save[c].pc = "write_backup"
  /\ \E o \in Outcomes :
       /\ faults' = Count(o)
       /\ IF o = "fail"
          THEN /\ save' = [save EXCEPT ![c] = SaveCatch(save[c])]
               /\ UNCHANGED <<store, scans>>
          ELSE /\ store' = [store EXCEPT !.backup = Item(JSONstringify(save[c].newScans))]
               /\ scans' = save[c].newScans
               /\ save' = [save EXCEPT ![c].pc = "returned"]
       /\ hist' = [hist EXCEPT !.clean = @ /\ o = "ok", !.cleared = @ \ Ids(scans')]
  /\ UNCHANGED <<initialized, now, load, clear, proc>>

\* ------------------------------------------------------------------------
\* deleteScan and clearAllScans
\* ------------------------------------------------------------------------
ScanIds == {ToString(t) : t \in 0..MaxTime}

\* scans.filter(scan => scan.id !== id)
WithoutId(list, id) == SelectSeq(list, LAMBDA scan : scan.id # id)

\* deleteScan(id), up to the first await of saveScans.
DeleteScan(id) ==
  /\ save["deleteScan"].pc = "idle"
  /\ InFlight < MaxInFlight
  /\ save' = [save EXCEPT !["deleteScan"] = SaveAttempt(WithoutId(scans, id), 0, 0)]
  /\ hist' = [hist EXCEPT !.clean = @ /\ proc.pc = "idle" /\ clear = "idle",
                          !.called = TRUE, !.prev = NoPrev,
                          !.target = IF id \in Ids(scans) THEN id ELSE ""]
  /\ UNCHANGED <<scans, initialized, store, now, faults, load, clear, proc>>

\* saveScans has returned to deleteScan, which resolves.
DeleteReturn ==
  /\ save["deleteScan"].pc = "returned"
  /\ save' = [save EXCEPT !["deleteScan"] = IdleSave]
  /\ hist' = [hist EXCEPT !.deleted = IF hist.only /\ hist.target # ""
                                       THEN @ \cup {hist.target} ELSE @,
                          !.target = ""]
  /\ UNCHANGED <<scans, initialized, store, now, faults, load, clear, proc>>

ClearAllScans ==
  /\ clear = "idle"
  /\ InFlight < MaxInFlight
  /\ clear' = "remove_primary"
  /\ hist' = [hist EXCEPT !.clean = FALSE, !.prev = NoPrev, !.pending = Ids(scans),
                          !.only = FALSE, !.resolved = {}, !.deleted = {}]
  /\ UNCHANGED <<scans, initialized, store, now, faults, load, save, proc>>

\* await AsyncStorage.removeItem(STORAGE_KEY)
ClearRemovePrimary ==
  /\ clear = "remove_primary"
  /\ \E o \in Outcomes :
       /\ faults' = Count(o)
       /\ IF o = "fail"
          THEN /\ scans' = <<>>
               /\ clear' = "idle"
               /\ UNCHANGED store
          ELSE /\ store' = [store EXCEPT !.primary = NoItem]
               /\ clear' = "remove_backup"
               /\ UNCHANGED scans
       /\ hist' = IF o = "fail"
                  THEN [hist EXCEPT !.cleared = (@ \cup hist.pending) \cap HeldIds(store),
                                    !.pending = {}]
                  ELSE hist
  /\ UNCHANGED <<initialized, now, load, save, proc>>

\* await AsyncStorage.removeItem(STORAGE_BACKUP_KEY); setScans([])
ClearRemoveBackup ==
  /\ clear = "remove_backup"
  /\ \E o \in Outcomes :
       /\ faults' = Count(o)
       /\ store' = (IF o = "fail" THEN store ELSE [store EXCEPT !.backup = NoItem])
       /\ scans' = <<>>
       /\ clear' = "idle"
  /\ hist' = [hist EXCEPT !.cleared = (@ \cup hist.pending) \cap HeldIds(store'),
                          !.pending = {}]
  /\ UNCHANGED <<initialized, now, load, save, proc>>

RECURSIVE ProcessCatch(_, _)

\* Mutant of ProcessAttempt: the imageUri is not looked at.
ProcessAttempt_NoUriCheck(p) ==
  [p EXCEPT !.pc = "connectivity", !.steps = <<"connectivity">>]

\* The start of one iteration of processScan's loop, up to its first await.
ProcessAttempt(p) ==
  IF IsBlank(p.imageUri)
  THEN ProcessCatch([p EXCEPT !.steps = <<>>], Err("Error", "noUri", FALSE))
  ELSE [p EXCEPT !.pc = "connectivity", !.steps = <<"connectivity">>]

\* Mutant of ProcessCatch: network errors are retried without a limit.
ProcessCatch_Unlimited(p, e) ==
  LET n == p.processingAttempts + 1 IN
  IF IsNetworkError(e)
  THEN ProcessAttempt([p EXCEPT !.processingAttempts = n, !.delay = RETRY_DELAY * n,
                            !.error = e, !.retries = 0, !.base64Len = 0, !.waited = 0])
  ELSE [p EXCEPT !.pc = "rejected", !.processingAttempts = n, !.error = e,
                 !.retries = 0, !.base64Len = 0, !.waited = 0, !.delay = 0]

\* Mutant of ProcessCatch: an attempt that found the device offline is not
\* retried.
ProcessCatch_OfflineNotRetried(p, e) ==
  LET n == p.processingAttempts + 1 IN
  IF n < MAX_RETRIES /\ IsNetworkError(e) /\ e.key # "offline"
  THEN ProcessAttempt([p EXCEPT !.processingAttempts = n, !.delay = RETRY_DELAY * n,
                            !.error = e, !.retries = 0, !.base64Len = 0, !.waited = 0])
  ELSE [p EXCEPT !.pc = "rejected", !.processingAttempts = n, !.error = e,
                 !.retries = 0, !.base64Len = 0, !.waited = 0, !.delay = 0]

\* The catch block of processScan, entered with error e (which a retry keeps
\* until the next attempt is past its connectivity check).
ProcessCatch(p, e) ==
  LET n == p.processingAttempts + 1 IN
  IF n < MAX_RETRIES /\ IsNetworkError(e)
  THEN ProcessAttempt([p EXCEPT !.processingAttempts = n, !.delay = RETRY_DELAY * n,
                            !.error = e, !.retries = 0, !.base64Len = 0, !.waited = 0])
  ELSE [p EXCEPT !.pc = "rejected", !.processingAttempts = n, !.error = e,
                 !.retries = 0, !.base64Len = 0, !.waited = 0, !.delay = 0]

\* processScan(imageUri) is called: the callback closes over the current scans.
ProcessScan(uri) ==
  /\ proc.pc = "idle"
  /\ InFlight < MaxInFlight
  /\ now <= MaxTime
  /\ proc' = ProcessAttempt([IdleProc EXCEPT !.imageUri = uri, !.closure = scans])
  /\ hist' = [hist EXCEPT !.clean = @ /\ save["deleteScan"].pc = "idle" /\ clear = "idle",
                          !.called = TRUE, !.prev = NoPrev]
  /\ UNCHANGED <<scans, initialized, store, now, faults, load, save, clear>>

\* await checkNetworkConnectivity(): NetInfo.fetch() reports online, reports
\* offline, or throws (which counts as online).
checkNetworkConnectivity ==
  /\ proc.pc = "connectivity"
  /\ \E r \in {"online"} \cup (IF faults < MaxFaults THEN {"offline", "throws"} ELSE {}) :
       /\ faults' = (IF r = "online" THEN faults ELSE faults + 1)
       /\ proc' = IF r = "offline"
                  THEN ProcessCatch(proc, Err("Error", "offline", FALSE))
                  ELSE [proc EXCEPT !.pc = "convert", !.steps = Append(@, "convert"),
                                    !.error = NoError]
  /\ UNCHANGED <<scans, initialized, store, now, load, save, clear, hist>>

\* What processScan does with the result of convertImageToBase64.
ProcessConverted(p, len) ==
  IF len < 100
  THEN ProcessCatch(p, Err("Error", "invalidBase64", FALSE))
  ELSE [p EXCEPT !.pc = "quality", !.base64Len = len, !.retries = 0,
                 !.steps = Append(@, "converted")]

\* Mutant of ConvertCatch: the wait before the next attempt does not grow.
ConvertCatch_ConstantDelay(p, e) ==
  LET r == p.retries + 1 IN
  IF r < MAX_RETRIES
  THEN [p EXCEPT !.pc = "convert", !.retries = r, !.delay = RETRY_DELAY]
  ELSE ProcessCatch([p EXCEPT !.retries = r], Err("Error", e.key, TRUE))

\* The catch block of convertImageToBase64, entered with error e.
ConvertCatch(p, e) ==
  LET r == p.retries + 1 IN
  IF r < MAX_RETRIES
  THEN [p EXCEPT !.pc = "convert", !.retries = r, !.delay = RETRY_DELAY * r]
  ELSE ProcessCatch([p EXCEPT !.retries = r], Err("Error", e.key, TRUE))

\* One attempt of convertImageToBase64 with result r (a length or an error).
ConvertAttempt(p, r) ==
  IF r.error # NoError THEN ConvertCatch(p, r.error)
  ELSE IF r.len < 100 THEN ConvertCatch(p, Err("Error", "tooShort", FALSE))
  ELSE ProcessConverted(p, r.len)

\* await convertImageToBase64(imageUri): one iteration of its loop.
convertImageToBase64 ==
  /\ proc.pc = "convert"
  /\ IF proc.imageUri.scheme = "data:image"
     THEN /\ proc' = IF proc.imageUri.payload > 100
                     THEN ProcessConverted(proc, proc.imageUri.payload)
                     ELSE ConvertCatch(proc, Err("Error", "invalidDataUri", FALSE))
          /\ UNCHANGED faults
     ELSE IF ~validateImageUri(proc.imageUri)
     THEN /\ proc' = ConvertCatch(proc, Err("Error", "invalidUri", FALSE))
          /\ UNCHANGED faults
     ELSE \E r \in {ConvertSuccess} \cup (IF faults < MaxFaults THEN ConvertFailures ELSE {}) :
            /\ faults' = (IF r = ConvertSuccess THEN faults ELSE faults + 1)
            /\ proc' = ConvertAttempt(proc, r)
  /\ UNCHANGED <<scans, initialized, store, now, load, save, clear, hist>>

\* await analyzeImageQuality(base64Image): it catches every error, and the
\* score it returns is not part of the modelled scan; then the request of
\* generateText is sent.
analyzeImageQuality ==
  /\ proc.pc = "quality"
  /\ proc' = [proc EXCEPT !.pc = "ai", !.steps = Append(@, "request")]
  /\ UNCHANGED <<scans, initialized, store, now, faults, load, save, clear, hist>>

\* API_TIMEOUT ms pass while generateText is awaited and has not answered.
ProcessAwaitAi ==
  /\ proc.pc = "ai"
  /\ proc.waited < API_TIMEOUT
  /\ proc' = [proc EXCEPT !.waited = API_TIMEOUT]
  /\ UNCHANGED <<scans, initialized, store, now, faults, load, save, clear, hist>>

\* Mutant of ProcessCompletion: the new scan is entered twice.
ProcessCompletion_Duplicate(p, completion, t) ==
  LET problems == ParseCompletion(completion)
      scanId == ToString(t)
      newScan == [id |-> scanId, problems |-> problems]
      updatedScans == <<newScan, newScan>> \o p.closure IN
  [proc |-> [p EXCEPT !.pc = "saving", !.scanId = scanId, !.waited = 0,
                      !.imageUri = IdleProc.imageUri, !.base64Len = 0,
                      !.steps = p.steps \o <<"response", "parsed", "saveScans">>],
   save |-> SaveAttempt(updatedScans, 0, 0)]

\* The code after a response has arrived, up to the first await of saveScans:
\* imageUri, the base64 data and the response are not read again.
ProcessCompletion(p, completion, t) ==
  LET problems == ParseCompletion(completion)
      scanId == ToString(t)
      newScan == [id |-> scanId, problems |-> problems]
      updatedScans == <<newScan>> \o p.closure IN
  [proc |-> [p EXCEPT !.pc = "saving", !.scanId = scanId, !.waited = 0,
                      !.imageUri = IdleProc.imageUri, !.base64Len = 0,
                      !.steps = p.steps \o <<"response", "parsed", "saveScans">>],
   save |-> SaveAttempt(updatedScans, 0, 0)]

\* await generateText(...) returns a completion.
ProcessAiResponse ==
  /\ proc.pc = "ai"
  /\ \E completion \in Completions :
       LET r == ProcessCompletion(proc, completion, now) IN
       /\ proc' = r.proc
       /\ save' = [save EXCEPT !["processScan"] = r.save]
  /\ now' = now + 1
  /\ UNCHANGED <<scans, initialized, store, faults, load, clear, hist>>

\* await generateText(...) rejects.
ProcessAiError ==
  /\ proc.pc = "ai"
  /\ faults < MaxFaults
  /\ \E e \in AiErrors : proc' = ProcessCatch(proc, e)
  /\ faults' = faults + 1
  /\ UNCHANGED <<scans, initialized, store, now, load, save, clear, hist>>

\* Mutant of ProcessReturn: processScan does not await saveScans.
ProcessReturn_NoAwait ==
  /\ proc.pc = "saving"
  /\ proc' = [proc EXCEPT !.pc = "resolved", !.steps = Append(@, "return")]
  /\ hist' = [hist EXCEPT !.resolved = IF hist.only THEN @ \cup {proc.scanId} ELSE @]
  /\ UNCHANGED <<scans, initialized, store, now, faults, load, save, clear>>

\* saveScans has returned to processScan, which returns scanId.
ProcessReturn ==
  /\ proc.pc = "saving"
  /\ save["processScan"].pc = "returned"
  /\ proc' = [proc EXCEPT !.pc = "resolved", !.steps = Append(@, "return")]
  /\ hist' = [hist EXCEPT !.resolved = IF hist.only THEN @ \cup {proc.scanId} ELSE @]
  /\ UNCHANGED <<scans, initialized, store, now, faults, load, save, clear>>

\* The caller has received the result of processScan.
ProcessSettled ==
  /\ proc.pc \in {"resolved", "rejected"}
  /\ proc' = IdleProc
  /\ save' = [save EXCEPT !["processScan"] = IdleSave]
  /\ UNCHANGED <<scans, initialized, store, now, faults, load, clear, hist>>

\* The app is closed and opened again: a fresh provider over the same storage.
Restart ==
  /\ scans' = <<>>
  /\ initialized' = FALSE
  /\ load' = [pc |-> "timer", retries |-> 0, delay |-> 0]
  /\ save' = [c \in Callers |-> IdleSave]
  /\ clear' = "idle"
  /\ proc' = IdleProc
  /\ hist' = [clean |-> TRUE, reads |-> TRUE, called |-> FALSE,
              prev |-> IF hist.clean /\ InFlight = 0
                       THEN [valid |-> TRUE, reads |-> hist.reads,
                             called |-> hist.called, scans |-> scans]
                       ELSE NoPrev,
              pending |-> {},
              cleared |-> hist.cleared \cap (StoredIds(store.primary) \cup StoredIds(store.backup)),
              only |-> hist.only, resolved |-> {}, target |-> "", deleted |-> {}]
  /\ UNCHANGED <<store, now, faults>>

Next ==
  \/ LoadBegin \/ LoadReadPrimary \/ LoadReadBackup
  \/ \E c \in Callers : SaveWritePrimary(c) \/ SaveWriteBackup(c)
  \/ \E id \in ScanIds : DeleteScan(id)
  \/ DeleteReturn
  \/ ClearAllScans \/ ClearRemovePrimary \/ ClearRemoveBackup
  \/ \E uri \in Uris : ProcessScan(uri)
  \/ checkNetworkConnectivity \/ convertImageToBase64
  \/ analyzeImageQuality \/ ProcessAwaitAi \/ ProcessAiResponse \/ ProcessAiError
  \/ ProcessReturn \/ ProcessSettled
  \/ Restart

Spec == Init /\ [][Next]_vars

\* The steps of a processScan call that complete an awaited I/O operation.
ProcessIO ==
  \/ checkNetworkConnectivity \/ convertImageToBase64 \/ analyzeImageQuality
  \/ ProcessAiResponse \/ ProcessAiError
  \/ SaveWritePrimary("processScan") \/ SaveWriteBackup("processScan")
  \/ ProcessReturn

\* The steps of loadScans: its timer fires, a read returns or throws.
LoadIO == LoadBegin \/ LoadReadPrimary \/ LoadReadBackup

\* One session of the app in which every I/O operation that processScan or
\* loadScans awaits eventually returns.
LiveNext ==
  \/ LoadBegin \/ LoadReadPrimary \/ LoadReadBackup
  \/ \E uri \in Uris : ProcessScan(uri)
  \/ ProcessIO \/ ProcessAwaitAi \/ ProcessSettled

LiveSpec == Init /\ [][LiveNext]_vars /\ WF_vars(ProcessIO) /\ WF_vars(LoadIO)

\* ------------------------------------------------------------------------
\* Properties
\* ------------------------------------------------------------------------
\* The step in which caller c's saveScans attempt succeeds: its second write
\* has completed and setScans has run.
SaveSucceeds(c) ==
  /\ save[c].pc = "write_backup"
  /\ save'[c].pc = "returned"
  /\ save'[c].retries = save[c].retries

\* C1: whenever an attempt of saveScans(L) succeeds, both keys hold the
\* serialization of L and the in-memory list is L; and a step of saveScans
\* that is not the success of its second write leaves the in-memory list alone.
C1_SaveSuccessWritesBothKeys ==
  [][\A c \in Callers :
       /\ SaveSucceeds(c) =>
            /\ store'.primary = Item(JSONstringify(save[c].newScans))
            /\ store'.backup = Item(JSONstringify(save[c].newScans))
            /\ scans' = save[c].newScans
       /\ (save[c].pc \in {"write_primary", "write_backup"} /\ save'[c] # save[c]
           /\ save'[c].pc # "idle" /\ ~SaveSucceeds(c)) => scans' = scans]_vars

PrimaryAbsentOrEmpty(st) == ~st.primary.has \/ st.primary.str = <<>>

BackupHoldsArray(st) ==
  st.backup.has /\ JSONparse(st.backup.str).ok /\ JSONparse(st.backup.str).isArray

\* The step in which loadScans ends.
LoadEnds == load.pc # "done" /\ load'.pc = "done"

PrimaryList(st) ==
  IF st.primary.has /\ JSONparse(st.primary.str).ok /\ JSONparse(st.primary.str).isArray
  THEN JSONparse(st.primary.str).val ELSE <<>>

HasId(list, id) == \E i \in 1..Len(list) : list[i].id = id

\* C4: whenever processScan resolves with id X, the scan X is in the in-memory
\* history and in the list stored under the primary key.
C4_ResolvedScanIsStored ==
  [][(proc.pc # "resolved" /\ proc'.pc = "resolved")
       => (HasId(scans', proc'.scanId) /\ HasId(PrimaryList(store'), proc'.scanId))]_vars

\* C5: the wait for the AI response is bounded by API_TIMEOUT: processScan is
\* never still awaiting generateText once API_TIMEOUT ms have passed.
C5_AiRequestBoundedByTimeout ==
  ~(proc.pc = "ai" /\ proc.waited >= API_TIMEOUT)

ProcessActive == proc.pc \notin {"idle", "resolved", "rejected"}

\* C6: given that every awaited I/O operation eventually returns, a processScan
\* call ends (it returns an id or rejects), and it never makes a fourth
\* attempt: an attempt is under way only after fewer than MAX_RETRIES failures.
C6_ProcessScanTerminates ==
  /\ [](ProcessActive => proc.processingAttempts < MAX_RETRIES)
  /\ [](proc.processingAttempts <= MAX_RETRIES)
  /\ (ProcessActive ~> ~ProcessActive)

\* processScan has rejected after its third failed attempt.
C6_Witness ==
  /\ proc.pc = "rejected" /\ proc.processingAttempts = MAX_RETRIES
  /\ IsNetworkError(proc.error)

\* A step of convertImageToBase64: one attempt ends.
ConvertStep == proc.pc = "convert" /\ proc' # proc /\ proc'.pc # "idle"

HasConvertPrefix(e) ==
  /\ Len(Message(e)) >= Len(MsgConvertPrefix)
  /\ SubSeq(Message(e), 1, Len(MsgConvertPrefix)) = MsgConvertPrefix

\* C7: convertImageToBase64 makes at most three attempts; an attempt that
\* succeeds returns its result (at least 100 characters) at once; the k-th
\* failure, k < 3, is followed by a wait of RETRY_DELAY * k and another
\* attempt; the third failure rejects with 'Failed to convert image after 3
\* attempts', which processScan's catch block receives.
C7_ConvertRetriesWithBackoff ==
  [][ConvertStep =>
       /\ proc.retries < MAX_RETRIES
       /\ \/ /\ proc'.pc = "quality"
             /\ proc'.base64Len >= 100
             /\ proc'.processingAttempts = proc.processingAttempts
          \/ /\ proc.retries + 1 < MAX_RETRIES
             /\ proc'.pc = "convert"
             /\ proc'.retries = proc.retries + 1
             /\ proc'.delay = RETRY_DELAY * (proc.retries + 1)
             /\ proc'.processingAttempts = proc.processingAttempts
          \/ /\ proc.retries + 1 = MAX_RETRIES
             /\ proc'.processingAttempts = proc.processingAttempts + 1
             /\ proc'.pc \in {"connectivity", "rejected"}
             /\ proc'.pc = "rejected" =>
                  (proc'.error.wrapped /\ HasConvertPrefix(proc'.error))]_vars

\* processScan has rejected with the error of a conversion that failed three
\* times.
C7_Witness ==
  /\ proc.pc = "rejected" /\ proc.error.wrapped /\ HasConvertPrefix(proc.error)
  /\ proc.imageUri.scheme = "file://"

\* Responses from which no non-empty array can be extracted: no bracketed
\* array, invalid JSON, a value that is not an array, an empty array.
Unextractable ==
  { <<"x">>, <<"[", "pA">>, <<"[", "pA", "]", "x", "]">>, <<"{", "}">>, <<"x", "[", "]">> }

IsPlaceholderScan(scan, id) ==
  /\ scan.id = id
  /\ Len(scan.problems) = 1
  /\ scan.problems[1].isCorrect = FALSE
  /\ scan.problems[1].confidence = 0
  /\ scan.problems[1].qualityIssues = <<"AI response parsing failed">>

\* The step is the one processScan takes when generateText returns completion.
ReceivedResponse(completion) ==
  /\ proc'.pc = "saving"
  /\ save'["processScan"] = ProcessCompletion(proc, completion, now).save

StepOrder ==
  <<"connectivity", "convert", "converted", "request", "response", "parsed",
    "saveScans", "return">>

IsPrefix(a, b) == Len(a) <= Len(b) /\ a = SubSeq(b, 1, Len(a))

\* C9: the steps of processScan run strictly in sequence: the AI request is
\* sent only after the conversion has returned at least 100 characters, the
\* response is parsed only after the request has returned, saveScans is called
\* only after parsing, and the id is returned only after saveScans has returned.
C9_PipelineStepsInSequence ==
  /\ IsPrefix(proc.steps, StepOrder)
  /\ proc.pc = "ai" => (proc.steps = SubSeq(StepOrder, 1, 4) /\ proc.base64Len >= 100)
  /\ save["processScan"].pc # "idle" => (proc.pc \in {"saving", "resolved"}
                                          /\ IsPrefix(SubSeq(StepOrder, 1, 7), proc.steps))
  /\ proc.pc = "saving" => proc.steps = SubSeq(StepOrder, 1, 7)
  /\ proc.pc = "resolved" => (proc.steps = StepOrder /\ save["processScan"].pc = "returned")

\* processScan has returned an id after all eight steps.
C9_Witness == proc.pc = "resolved" /\ proc.steps = StepOrder /\ HasId(scans, proc.scanId)

PrimaryUnreadable(st) ==
  /\ st.primary.has /\ st.primary.str # <<>>
  /\ ~JSONparse(st.primary.str).ok \/ ~JSONparse(st.primary.str).isArray

\* C10: if the primary key holds data that cannot be read as a JSON array
\* (corrupt JSON or a value that is not an array) while the backup key holds a
\* valid array, loadScans ends with the in-memory scans equal to the backup's
\* array.
C10_LoadRecoversFromBackup ==
  [][(LoadEnds /\ PrimaryUnreadable(store) /\ BackupHoldsArray(store))
       => JSONstringify(scans') = store.backup.str]_vars

\* C11: once clearAllScans has been called and has emptied the in-memory
\* history, no scan that was in the history when it was called is in the
\* history again: not after a restart, not after the completion of a call
\* that was in flight, and also not when a storage removal failed.
C11_ClearCannotBeUndone ==
  [][Ids(scans') \cap hist.cleared = {}]_vars

\* A step of the processScan call (its start included).
ProcessStep == proc' # proc /\ proc'.pc # "idle"

\* C12: a processScan call changes the history by at most one scan however
\* many attempts it makes: saveScans is called once, with the list the call
\* closed over and one new scan in front of it, and only by a call that then
\* resolves; a step that does not reach saveScans (so every step of a call
\* that rejects) leaves the in-memory list and both keys as they are.
C12_ProcessScanAddsAtMostOneScan ==
  [][/\ (ProcessStep /\ proc'.pc \notin {"saving", "resolved"}) =>
          /\ scans' = scans /\ store' = store
          /\ save'["processScan"].pc = "idle"
     /\ (ProcessStep /\ proc.pc # "saving" /\ proc'.pc = "saving") =>
          /\ Len(save'["processScan"].newScans) = Len(proc.closure) + 1
          /\ save'["processScan"].newScans[1].id = proc'.scanId
          /\ proc'.scanId \notin Ids(proc.closure)
          /\ Tail(save'["processScan"].newScans) = proc.closure
          /\ scans' = scans /\ store' = store
     /\ (proc.pc = "saving" /\ proc'.pc \in {"saving", "resolved"}) =>
          /\ save'["processScan"].newScans = save["processScan"].newScans
          /\ proc'.processingAttempts = proc.processingAttempts
     /\ (proc.pc = "saving" /\ proc'.pc # "saving") => proc'.pc \in {"resolved", "idle"}]_vars

\* processScan has resolved after a failed attempt, and the history is the
\* list it closed over with one new scan in front of it.
C12_Witness ==
  /\ proc.pc = "resolved" /\ proc.processingAttempts > 0
  /\ Len(scans) = Len(proc.closure) + 1
  /\ scans[1].id = proc.scanId /\ Tail(scans) = proc.closure

\* No call is in flight: loadScans has finished and every processScan,
\* deleteScan and clearAllScans call has completed.
AllCompleted ==
  /\ load.pc = "done" /\ clear = "idle"
  /\ proc.pc \in {"idle", "resolved", "rejected"}
  /\ \A c \in Callers : save[c].pc = "idle" \/ (c = "processScan" /\ proc.pc = "resolved")

\* C13: when processScan and deleteScan calls have been made, overlapping or
\* not, then once all of them have completed the history holds every scan a
\* processScan call resolved with that no deleteScan call was given, and no
\* scan that a completed deleteScan call was given.
C13_NoLostUpdate ==
  (AllCompleted /\ hist.only) =>
    /\ hist.resolved \ hist.deleted \subseteq Ids(scans)
    /\ hist.deleted \cap Ids(scans) = {}

\* loadScans has finished and no saveScans or clearAllScans call is in progress.
StorageAtRest ==
  /\ load.pc = "done" /\ clear = "idle"
  /\ \A c \in Callers : save[c].pc \in {"idle", "returned"}

\* C14: once the first loadScans has finished, and whenever no saveScans or
\* clearAllScans call is in progress, the in-memory scans are the list stored
\* under the primary key, whatever the outcomes of the storage writes and
\* removals have been.  Stated for the states in which the primary key holds a
\* list and no read of loadScans has failed.
C14_MemoryMatchesPrimary ==
  (StorageAtRest /\ hist.reads /\ ~Falsy(store.primary) /\ ~PrimaryUnreadable(store))
    => scans = PrimaryList(store)

\* A step in which an attempt of processScan ends in its catch block.
AttemptFails == proc'.processingAttempts = proc.processingAttempts + 1

\* The errors of the model that are network-type by the claim's words: the
\* name is AbortError or TypeError, or the message is 'No internet connection',
\* 'Failed to fetch image: 404', 'Image conversion timeout after 30s' or
\* 'Network request failed' (alone or after convertImageToBase64's prefix).
NetworkType(e) ==
  \/ e.name \in {"AbortError", "TypeError"}
  \/ e.key \in {"offline", "fetchStatus", "convertTimeout", "requestFailed"}

\* The error is one that the step processScan was at can throw.
ThrownAt(pc, e) ==
  CASE pc = "idle" -> e = Err("Error", "noUri", FALSE)
    [] pc = "connectivity" -> e = Err("Error", "offline", FALSE)
    [] pc = "convert" -> e.name = "Error" /\ (e.wrapped \/ e.key = "invalidBase64")
    [] pc = "ai" -> e \in AiErrors
    [] OTHER -> FALSE

\* C15: when attempt k of processScan fails with k < MAX_RETRIES, a
\* network-type error is followed by a wait of RETRY_DELAY * k and attempt
\* k + 1, and any other error makes processScan reject at once with that
\* error; when the third attempt fails, processScan rejects with its error.
C15_RetryOnlyNetworkErrors ==
  [][AttemptFails =>
       LET k == proc'.processingAttempts IN
       /\ ThrownAt(proc.pc, proc'.error)
       /\ IF k < MAX_RETRIES /\ NetworkType(proc'.error)
          THEN /\ proc'.pc = "connectivity"
               /\ proc'.delay = RETRY_DELAY * k
               /\ proc'.steps = <<"connectivity">>
          ELSE /\ proc'.pc = "rejected"
               /\ proc'.delay = 0]_vars

\* The second attempt of processScan has failed with an aborted request and
\* the third begins after a wait of 2 * RETRY_DELAY.
C15_Witness ==
  /\ proc.pc = "connectivity" /\ proc.processingAttempts = 2
  /\ proc.delay = RETRY_DELAY * 2 /\ proc.error.name = "AbortError"
\* A step in which the connectivity check of an attempt reports offline.
OfflineStep == proc.pc = "connectivity" /\ AttemptFails

\* "No internet connection"
NoInternetConnection ==
  <<"N", "o", " ", "i", "n", "t", "e", "r", "n", "e", "t", " ", "c", "o",
    "n", "n", "e", "c", "t", "i", "o", "n">>

\* C16: an attempt whose connectivity check reports offline fetches nothing,
\* sends no AI request and writes nothing to storage; the first and the second
\* such attempt are followed by another attempt, the third makes processScan
\* reject with 'No internet connection', so three connectivity checks are
\* made when all report offline, and the history is as it was.
C16_OfflineAttemptDoesNothing ==
  [][OfflineStep =>
       /\ proc.steps = <<"connectivity">>
       /\ scans' = scans /\ store' = store
       /\ \A c \in Callers : save'[c] = save[c]
       /\ save["processScan"].pc = "idle"
       /\ proc'.closure = proc.closure
       /\ IF proc.processingAttempts + 1 < MAX_RETRIES
          THEN proc'.pc = "connectivity" /\ proc'.steps = <<"connectivity">>
          ELSE /\ proc'.pc = "rejected"
               /\ proc'.steps = <<"connectivity">>
               /\ IsPrefix(NoInternetConnection, Message(proc'.error))]_vars

\* processScan has rejected with 'No internet connection' after its third
\* connectivity check, with nothing written.
C16_Witness ==
  /\ proc.pc = "rejected" /\ proc.error.key = "offline"
  /\ proc.processingAttempts = 3 /\ proc.steps = <<"connectivity">>
  /\ faults = 3 /\ save["processScan"].pc = "idle"
\* The empty string and the string of two spaces.
BlankUris == {Uri("", 0, 0), Uri("", 2, 0)}

\* C17: processScan called with an empty or whitespace-only imageUri rejects
\* with 'No image URI provided' after exactly one attempt: no connectivity
\* check, no fetch, no AI request, no storage write and no retry wait.
C17_BlankUriRejectsAtOnce ==
  [][\A imageUri \in BlankUris :
       (proc.pc = "idle" /\ proc'.pc # "idle" /\ proc'.imageUri = imageUri) =>
         /\ proc'.pc = "rejected"
         /\ Message(proc'.error) = MsgNoUri
         /\ proc'.processingAttempts = 1
         /\ proc'.steps = <<>>
         /\ proc'.delay = 0
         /\ scans' = scans /\ store' = store /\ save' = save /\ faults' = faults]_vars

\* processScan has rejected a whitespace-only imageUri while the history held
\* a scan.
C17_Witness ==
  /\ proc.pc = "rejected" /\ proc.imageUri = Uri("", 2, 0)
  /\ proc.error.key = "noUri" /\ proc.processingAttempts = 1
  /\ scans # <<>>
\* A step in which a write attempt of caller c's saveScans fails.
SaveFails(c) ==
  /\ save[c].pc \in {"write_primary", "write_backup"}
  /\ save'[c].retries = save[c].retries + 1

\* C18: saveScans makes at most MAX_RETRIES write attempts; a failed attempt
\* that is not the third is followed by a wait of RETRY_DELAY and another
\* attempt; after the third failure saveScans returns (it does not throw) and
\* the in-memory scans are as they were.
C18_SaveGivesUpAfterThreeAttempts ==
  /\ [](\A c \in Callers :
         /\ save[c].retries <= MAX_RETRIES
         /\ save[c].pc \in {"write_primary", "write_backup"} => save[c].retries < MAX_RETRIES)
  /\ [][\A c \in Callers :
         SaveFails(c) =>
           /\ scans' = scans
           /\ save'[c].newScans = save[c].newScans
           /\ IF save[c].retries + 1 < MAX_RETRIES
              THEN save'[c].pc = "write_primary" /\ save'[c].delay = RETRY_DELAY
              ELSE save'[c].pc = "returned" /\ save'[c].delay = 0]_vars

\* The saveScans call of deleteScan has returned after three failed attempts,
\* with the scan still in memory.
C18_Witness ==
  /\ save["deleteScan"].pc = "returned" /\ save["deleteScan"].retries = MAX_RETRIES
  /\ scans # <<>> /\ save["deleteScan"].newScans = <<>>
\* deleteScan is called.
DeleteCalled == save["deleteScan"].pc = "idle" /\ save'["deleteScan"].pc # "idle"

\* The index in list of its j-th scan whose id is not id.
KeptIndex(list, id, j) ==
  CHOOSE i \in 1..Len(list) :
    /\ list[i].id # id
    /\ Cardinality({k \in 1..i : list[k].id # id}) = j

\* out is list without the scans whose id is id, in the order of list.
IsListWithout(out, list, id) ==
  /\ Len(out) = Cardinality({i \in 1..Len(list) : list[i].id # id})
  /\ \A j \in 1..Len(out) : out[j] = list[KeptIndex(list, id, j)]

\* C19: deleteScan(id) hands saveScans the in-memory list without the scans
\* whose id is id, the other scans in their order (the list itself if no scan
\* has that id), and when the write succeeds the in-memory list and both keys
\* hold that list.
C19_DeleteRemovesExactlyThatScan ==
  [][/\ DeleteCalled =>
          /\ IF hist'.target = ""
             THEN save'["deleteScan"].newScans = scans
             ELSE /\ hist'.target \in Ids(scans)
                  /\ IsListWithout(save'["deleteScan"].newScans, scans, hist'.target)
          /\ scans' = scans /\ store' = store
     /\ SaveSucceeds("deleteScan") =>
          /\ scans' = save["deleteScan"].newScans
          /\ store'.primary = Item(JSONstringify(save["deleteScan"].newScans))
          /\ store'.backup = Item(JSONstringify(save["deleteScan"].newScans))]_vars
\* The stored values of the model that do not hold an array: nothing (null or
\* the empty string), 'null', 'undefined', an object.
NotAnArray(item) ==
  Falsy(item) \/ item.str \in {<<"null">>, <<"undefined">>, <<"{", "}">>}

\* C20: loadScans ends, after at most MAX_RETRIES attempts, with the provider
\* initialized and the in-memory scans an array: the stored array if the value
\* it read holds one, the empty array if nothing is stored or the value is not
\* an array, and the empty array if all three attempts threw.
C20_LoadAlwaysEnds ==
  /\ (load.pc # "done") ~> (load.pc = "done")
  /\ [](/\ load.retries <= MAX_RETRIES
        /\ load.pc \in {"read_primary", "read_backup"} => load.retries < MAX_RETRIES
        /\ load.pc = "done" => initialized)
  /\ [][LoadEnds =>
         LET stored == IF load.pc = "read_primary" THEN store.primary ELSE store.backup IN
         /\ initialized'
         /\ IF load'.retries = load.retries
            THEN IF NotAnArray(stored) THEN scans' = <<>>
                 ELSE JSONstringify(scans') = stored.str
            ELSE load'.retries = MAX_RETRIES /\ scans' = <<>>]_vars

\* loadScans has ended after three attempts that threw, with an empty list in
\* memory although the primary key holds a scan.
C20_Witness ==
  /\ load.pc = "done" /\ load.retries = MAX_RETRIES /\ initialized
  /\ scans = <<>> /\ store.primary = Item(JSONstringify(<<OldScan>>))
====
